---- MODULE Spec2Model ----
(***************************************************************************)
(* Model of GitAnalyzer (src/src/git_analyzer.py): the windowed commit     *)
(* traversal get_recent_commits, the per-commit derivation                 *)
(* _extract_commit_info and the per-file classification get_file_changes / *)
(* _extract_file_change.                                                   *)
(*                                                                         *)
(* The repository is read through GitPython, which is not part of the      *)
(* sources.  What the library hands to the code is modelled as data of the *)
(* repository state:                                                       *)
(*   - iter_commits('main') yields `history` in order, or raises when the  *)
(*     branch cannot be iterated (main_ok = FALSE);                        *)
(*   - commit.parents[k] is represented by the list of real file changes   *)
(*     between that parent (pre side) and the commit (post side);          *)
(*   - commit.diff(other) compares self -> other, so in                    *)
(*     commit.diff(commit.parents[0]) the a side is the commit and the b   *)
(*     side is the parent;                                                 *)
(*   - an entry may or may not expose `stats`, its `diff` payload may be   *)
(*     bytes or str, commit.stats.files maps paths to numbers or to dicts; *)
(*   - reading a damaged commit (readable = FALSE) raises.                 *)
(* BlogGenerator (src/src/main.py) drives the analyzer: generate_blog_post  *)
(* and generate_multiple_posts call it, the content generator, the         *)
(* formatter and save_blog_post; `steps` lists the collaborator calls of   *)
(* the last such call and `written` the files it wrote.  The title the     *)
(* language model returns and whether the disk accepts a write are inputs. *)
(* Time is counted in ticks of 1/TicksPerSecond s: datetime.now() has      *)
(* sub-second resolution, committed_date has whole seconds.                *)
(***************************************************************************)
EXTENDS Integers, Sequences, FiniteSets, TLC

VARIABLES repo, now, call, prev, log, steps, written

vars == <<repo, now, call, prev, log, steps, written>>

\* ---------------------------------------------------------------- bounds
MaxDays == 2
MaxCommits == 3
MaxEntries == 2
MaxFiles == 2
MaxTicks == 1
MaxBatch == 2
MaxBlogCommits == 2
MaxPosts == 2
TicksPerSecond == 2

\* timedelta(days=1) in seconds
SecondsPerDay == 86400

None == "None"

Days == 1 .. MaxDays

SeqUpTo(S, n) == UNION {[1 .. k -> S] : k \in 0 .. n}

\* ------------------------------------------------------- time arithmetic
\* datetime.fromtimestamp(commit.committed_date)
FromTimestamp(committed_date) == committed_date * TicksPerSecond

\* timedelta(days=days)
TimeDelta(days) == days * SecondsPerDay * TicksPerSecond

\* The clock reading at the first call and the last one the model lets it reach.
NowStart == FromTimestamp((MaxDays + 1) * SecondsPerDay)

NowEnd == NowStart + MaxTicks

\* Committed dates around the one-day cutoff of a call made at NowStart:
\* one second before it, exactly on it, one second after it.
CommitTimes == {MaxDays * SecondsPerDay + e : e \in {-1, 0, 1}}

\* ------------------------------------------------- repository contents
\* stats dicts of a diff entry: both keys, or only 'insertions'
FullStats == [insertions |-> 1, deletions |-> 2]

PartialStats == [insertions |-> 3]

\* One real file change between a parent (pre) and the commit (post).
Change(pre, post, has_stats, stats, body) ==
    [pre |-> pre, post |-> post, has_stats |-> has_stats, stats |-> stats, body |-> body]

PathPairs ==
    { <<None, "a.txt">>, <<"a.txt", None>>, <<"a.txt", "a.txt">>,
      <<"a.txt", "b.txt">>, <<None, None>> }

Changes ==
    {Change(p[1], p[2], TRUE, FullStats, "bytes") : p \in PathPairs}
    \cup {Change("a.txt", "a.txt", TRUE, PartialStats, "bytes"),
          Change("a.txt", "a.txt", FALSE, FullStats, "bytes"),
          Change(None, "b.txt", FALSE, FullStats, "str")}

Diffs == SeqUpTo(Changes, MaxEntries)

\* What a non-first parent of a merge may differ by.
OtherDiffs == {<<>>, <<Change("b.txt", None, TRUE, FullStats, "bytes")>>}

\* commit.stats.files of a root commit: an ordered mapping path -> value, the
\* value a plain number or the dict {'insertions', 'deletions', 'lines'}.
FileValues ==
    { [kind |-> "int", n |-> 1], [kind |-> "int", n |-> 2],
      [kind |-> "dict", insertions |-> 2, deletions |-> 0, lines |-> 2] }

FileStats ==
    {f \in SeqUpTo({"a.txt", "b.txt"} \X FileValues, MaxFiles) :
        \A i, j \in DOMAIN f : f[i][1] = f[j][1] => i = j}

CommitBody(parents, files, committed_date, readable) ==
    [parents |-> parents, files |-> files,
     committed_date |-> committed_date, readable |-> readable]

\* Commits for the windowing runs: one shape, every committed date, readable or not.
PlainDiff == <<Change("a.txt", "a.txt", TRUE, FullStats, "bytes")>>

WindowBodies ==
    {CommitBody(<<PlainDiff>>, <<>>, t, r) : t \in CommitTimes, r \in BOOLEAN}

\* Commits for the derivation runs: every shape, one committed date.
InfoTime == MaxDays * SecondsPerDay

InfoBodies ==
    {CommitBody(<<>>, f, InfoTime, TRUE) : f \in FileStats}
    \cup {CommitBody(<<d>>, <<>>, InfoTime, TRUE) : d \in Diffs}
    \cup {CommitBody(<<d, o>>, <<>>, InfoTime, TRUE) : d \in Diffs, o \in OtherDiffs}

\* commit.hexsha: the commit's position in the history stands for its id.
Numbered(s) == [i \in DOMAIN s |-> [hexsha |-> i] @@ s[i]]

WindowHistories == {Numbered(s) : s \in SeqUpTo(WindowBodies, MaxCommits)}

InfoHistories == {Numbered(<<b>>) : b \in InfoBodies}

\* Commits for the batch runs: committed on the one-day cutoff, with full
\* statistics, with statistics missing (an entry without stats, a root
\* snapshot reported as dicts), or unreadable.
BatchBodies ==
    {CommitBody(<<d>>, <<>>, InfoTime, TRUE) :
        d \in {PlainDiff,
               <<Change("a.txt", "a.txt", FALSE, FullStats, "bytes")>>,
               <<Change("a.txt", "b.txt", TRUE, PartialStats, "bytes"),
                 Change(None, "b.txt", FALSE, FullStats, "str")>>}}
    \cup {CommitBody(<<>>, <<<<"a.txt", v>>>>, InfoTime, TRUE) : v \in FileValues}
    \cup {CommitBody(<<PlainDiff>>, <<>>, InfoTime, FALSE)}

BatchHistories == {Numbered(s) : s \in SeqUpTo(BatchBodies, MaxBatch)}

\* Repositories for the blog runs: readable commits of every committed date
\* (a failing traversal is the repository whose main does not resolve).
BlogBodies == {b \in WindowBodies : b.readable}

BlogHistories == {Numbered(s) : s \in SeqUpTo(BlogBodies, MaxBlogCommits)}

\* Identifiers a caller may pass: those of the history and some of no commit.
Hashes == 0 .. MaxCommits

\* ------------------------------------------------------ library contract
\* Python's `x or y` on optional paths
Or(x, y) == IF x # None THEN x ELSE y

\* dict.get(key, default)
Get(d, key, default) == IF key \in DOMAIN d THEN d[key] ELSE default

\* One entry of commit.diff(commit.parents[0]): side a is the commit, side b
\* the parent; new_file says side a lacks the file, deleted_file side b.
DiffEntry(c) ==
    [a_path |-> c.post, b_path |-> c.pre,
     new_file |-> (c.post = None /\ c.pre # None),
     deleted_file |-> (c.pre = None /\ c.post # None),
     has_stats |-> c.has_stats, stats |-> c.stats, diff |-> c.body]

\* CommitDiff over every parent: the diffs against all of them, one after another
RECURSIVE AllParents(_, _)
AllParents(parents, k) ==
    IF k > Len(parents)
    THEN <<>>
    ELSE [i \in DOMAIN parents[k] |-> DiffEntry(parents[k][i])]
             \o AllParents(parents, k + 1)

CommitDiffAll(commit) == AllParents(commit.parents, 1)

\* commit.diff(commit.parents[0])
CommitDiff(commit) ==
    [i \in DOMAIN commit.parents[1] |-> DiffEntry(commit.parents[1][i])]

\* repo.commit(commit_hash): the commit, when the id names one
Resolves(commit_hash) == commit_hash \in DOMAIN repo.history

\* ------------------------------------------------- _extract_commit_info
\* AddStats with the insertions counted as deletions too
AddStatsSwapped(acc, change) ==
    IF change.has_stats
    THEN [acc EXCEPT !.additions = @ + Get(change.stats, "insertions", 0),
                     !.deletions = @ + Get(change.stats, "insertions", 0)]
    ELSE acc

\* try: additions += change.stats.get('insertions', 0)
\*      deletions += change.stats.get('deletions', 0)
\* except AttributeError: pass
AddStats(acc, change) ==
    IF change.has_stats
    THEN [acc EXCEPT !.additions = @ + Get(change.stats, "insertions", 0),
                     !.deletions = @ + Get(change.stats, "deletions", 0)]
    ELSE acc

\* files_changed.append(change.a_path or change.b_path)
AddFile(acc, change) ==
    [acc EXCEPT !.files_changed = Append(@, Or(change.a_path, change.b_path))]

\* for change in diff: ...
RECURSIVE DiffLoop(_, _, _)
DiffLoop(diff, i, acc) ==
    IF i > Len(diff)
    THEN acc
    ELSE DiffLoop(diff, i + 1, AddStats(AddFile(acc, diff[i]), diff[i]))

\* sum(values): 0 + v1 + v2 + ..., a TypeError at the first value that is no number
RECURSIVE SumValues(_, _, _)
SumValues(files, i, total) ==
    IF i > Len(files)
    THEN [type_error |-> FALSE, total |-> total]
    ELSE IF files[i][2].kind = "int"
         THEN SumValues(files, i + 1, total + files[i][2].n)
         ELSE [type_error |-> TRUE, total |-> 0]

\* RootFiles with each path inserted at the front
RootFilesReversed(commit) ==
    [i \in DOMAIN commit.files |-> commit.files[Len(commit.files) + 1 - i][1]]

\* for file_path in commit.stats.files.keys(): files_changed.append(file_path)
RootFiles(commit) == [i \in DOMAIN commit.files |-> commit.files[i][1]]

\* try: additions = sum(commit.stats.files.values())
\* except TypeError: additions = 0
RootAdditions(commit) ==
    LET s == SumValues(commit.files, 1, 0)
    IN  IF s.type_error THEN 0 ELSE s.total

\* the totals of either branch: files_changed, additions, deletions
CommitTotals(commit) ==
    IF commit.parents # <<>>
    THEN DiffLoop(CommitDiff(commit), 1,
                  [files_changed |-> <<>>, additions |-> 0, deletions |-> 0])
    ELSE [files_changed |-> RootFiles(commit),
          additions |-> RootAdditions(commit),
          deletions |-> 0]

\* commit.hexsha[:8]; abbreviations of distinct commits are distinct
ShortHash(hexsha) == hexsha

\* ExtractCommitInfo with the record dated by the clock
ExtractCommitInfoNow(commit) ==
    LET t == CommitTotals(commit)
    IN  [hash |-> ShortHash(commit.hexsha),
         date |-> now,
         files_changed |-> t.files_changed,
         additions |-> t.additions,
         deletions |-> t.deletions]

ExtractCommitInfo(commit) ==
    LET t == CommitTotals(commit)
    IN  [hash |-> ShortHash(commit.hexsha),
         date |-> FromTimestamp(commit.committed_date),
         files_changed |-> t.files_changed,
         additions |-> t.additions,
         deletions |-> t.deletions]

\* --------------------------------------------------- get_recent_commits
\* OutOfWindow with the cutoff itself outside the window
OutOfWindowInclusive(commit_date, start_date) == commit_date <= start_date

\* if commit_date < start_date: break
OutOfWindow(commit_date, start_date) == commit_date < start_date

\* Collect with the record inserted at the front
CollectFirst(commits, commit_info) == <<commit_info>> \o commits

\* commits.append(commit_info)
Collect(commits, commit_info) == Append(commits, commit_info)

\* DerivationRaises without the try/except of lines 117-122 and 128-131:
\* missing statistics raise as well
DerivationRaisesOnMissingStats(commit) ==
    \/ ~commit.readable
    \/ /\ commit.parents # <<>>
       /\ \E i \in DOMAIN commit.parents[1] : ~commit.parents[1][i].has_stats
    \/ /\ commit.parents = <<>>
       /\ SumValues(commit.files, 1, 0).type_error

\* commit_info = self._extract_commit_info(commit) raises: commit.diff(...) or
\* commit.stats of a damaged commit fails, nothing else in the derivation does
DerivationRaises(commit) == ~commit.readable

\* CommitLoop with `continue` in place of `break`
RECURSIVE CommitLoopContinue(_, _, _, _)
CommitLoopContinue(history, i, start_date, commits) ==
    IF i > Len(history)
    THEN [raised |-> FALSE, commits |-> commits]
    ELSE IF OutOfWindow(FromTimestamp(history[i].committed_date), start_date)
         THEN CommitLoopContinue(history, i + 1, start_date, commits)
         ELSE IF DerivationRaises(history[i])
              THEN [raised |-> TRUE, commits |-> commits]
              ELSE CommitLoopContinue(history, i + 1, start_date,
                                      Collect(commits, ExtractCommitInfo(history[i])))

\* for commit in self.repo.iter_commits('main'): ...   An exception of the
\* derivation leaves the loop and the try block.
RECURSIVE CommitLoop(_, _, _, _)
CommitLoop(history, i, start_date, commits) ==
    IF i > Len(history)
    THEN [raised |-> FALSE, commits |-> commits]
    ELSE IF OutOfWindow(FromTimestamp(history[i].committed_date), start_date)
         THEN [raised |-> FALSE, commits |-> commits]
         ELSE IF DerivationRaises(history[i])
              THEN [raised |-> TRUE, commits |-> commits]
              ELSE CommitLoop(history, i + 1, start_date,
                              Collect(commits, ExtractCommitInfo(history[i])))

\* the try block, lines 76-90
TryRecentCommits(start_date) ==
    IF ~repo.main_ok
    THEN [raised |-> TRUE, commits |-> <<>>]
    ELSE CommitLoop(repo.history, 1, start_date, <<>>)

\* RecentCommitsExcept returning the records collected before the exception
RecentCommitsPartial(t) ==
    [ret |-> t.commits, escaped |-> FALSE, log |-> <<"error">>]

\* RecentCommitsExcept with the exception raised again after logging
RecentCommitsReraise(t) ==
    [ret |-> <<>>, escaped |-> TRUE, log |-> <<"error">>]

\* except Exception as e: logger.error(...); return []
RecentCommitsExcept(t) ==
    [ret |-> <<>>, escaped |-> FALSE, log |-> <<"error">>]

\* logger.info(...); return commits
RecentCommitsReturn(t) ==
    [ret |-> t.commits, escaped |-> FALSE, log |-> <<"info">>]

\* end_date = datetime.now(); start_date = end_date - timedelta(days=days)
RecentCommitsCall(days, end_date) ==
    LET start_date == end_date - TimeDelta(days)
        t == TryRecentCommits(start_date)
    IN  IF t.raised THEN RecentCommitsExcept(t) ELSE RecentCommitsReturn(t)

\* ------------------------------------------------- _extract_file_change
\* if diff.new_file: 'A'  elif diff.deleted_file: 'D'  else: 'M'
ChangeType(diff) ==
    IF diff.new_file THEN "A" ELSE IF diff.deleted_file THEN "D" ELSE "M"

\* diff.diff.decode('utf-8', errors='ignore'): only bytes have decode
Decodes(diff) == diff.diff = "bytes"

\* try: diff.stats.get(...) except AttributeError: 0, 0
FileStatsOf(diff) ==
    IF diff.has_stats
    THEN [additions |-> Get(diff.stats, "insertions", 0),
          deletions |-> Get(diff.stats, "deletions", 0)]
    ELSE [additions |-> 0, deletions |-> 0]

\* The FileChange, or None: silently for an entry without path, with an
\* error logged when the extraction raises (except Exception, line 212).
ExtractFileChange(diff) ==
    LET file_path == Or(diff.a_path, diff.b_path)
    IN  IF file_path = None
        THEN [none |-> TRUE, log |-> <<>>]
        ELSE IF ~Decodes(diff)
             THEN [none |-> TRUE, log |-> <<"error">>]
             ELSE [none |-> FALSE, log |-> <<>>,
                   change |-> [file_path |-> file_path,
                               change_type |-> ChangeType(diff),
                               additions |-> FileStatsOf(diff).additions,
                               deletions |-> FileStatsOf(diff).deletions]]

\* ------------------------------------------------------ get_file_changes
\* for change in diff: file_change = ...; if file_change: changes.append(...)
RECURSIVE ChangeLoop(_, _, _)
ChangeLoop(diff, i, acc) ==
    IF i > Len(diff)
    THEN acc
    ELSE LET fc == ExtractFileChange(diff[i])
         IN  ChangeLoop(diff, i + 1,
                 [changes |-> IF fc.none THEN acc.changes
                                         ELSE Append(acc.changes, fc.change),
                  log |-> acc.log \o fc.log])

\* RootChanges with the files of the snapshot listed as added
RootChangesListed(commit) ==
    [changes |-> [i \in DOMAIN commit.files |->
                     [file_path |-> commit.files[i][1], change_type |-> "A",
                      additions |-> 0, deletions |-> 0]],
     log |-> <<>>]

\* the body run for a commit that has no parent
RootChanges(commit) == [changes |-> <<>>, log |-> <<>>]

\* the try block, lines 154-164
TryFileChanges(commit_hash) ==
    IF ~Resolves(commit_hash)
    THEN [raised |-> TRUE, changes |-> <<>>, log |-> <<>>]
    ELSE LET commit == repo.history[commit_hash]
         IN  IF commit.parents # <<>>
             THEN IF ~commit.readable
                  THEN [raised |-> TRUE, changes |-> <<>>, log |-> <<>>]
                  ELSE [raised |-> FALSE] @@
                       ChangeLoop(CommitDiff(commit), 1,
                                  [changes |-> <<>>, log |-> <<>>])
             ELSE [raised |-> FALSE] @@ RootChanges(commit)

\* except Exception as e: logger.error(...); return []
FileChangesExcept(t) ==
    [ret |-> <<>>, escaped |-> FALSE, log |-> t.log \o <<"error">>]

\* return changes
FileChangesReturn(t) ==
    [ret |-> t.changes, escaped |-> FALSE, log |-> t.log]

FileChangesCall(commit_hash) ==
    LET t == TryFileChanges(commit_hash)
    IN  IF t.raised THEN FileChangesExcept(t) ELSE FileChangesReturn(t)

\* ----------------------------------------------------------- the machine
\* `call` is the last completed call: its operation, argument, the clock
\* reading it was made at, what it returned and whether an exception left it.
\* `prev` is the last get_recent_commits call completed before `call`, and
\* `log` is what `call` logged.
CallRecord(op, arg, r) ==
    [op |-> op, arg |-> arg, at |-> now, ret |-> r.ret, escaped |-> r.escaped]

NoCall == [op |-> "none", arg |-> 0, at |-> 0, ret |-> <<>>, escaped |-> FALSE]

\* get_recent_commits(days)
GetRecentCommits ==
    \E days \in Days :
        LET r == RecentCommitsCall(days, now)
        IN  /\ call' = CallRecord("get_recent_commits", days, r)
            /\ log' = r.log
            /\ prev' = IF call.op = "get_recent_commits" THEN call ELSE prev
            /\ UNCHANGED <<repo, now, steps, written>>

\* get_file_changes(commit_hash)
GetFileChanges ==
    \E commit_hash \in Hashes :
        LET r == FileChangesCall(commit_hash)
        IN  /\ call' = CallRecord("get_file_changes", commit_hash, r)
            /\ log' = r.log
            /\ prev' = IF call.op = "get_recent_commits" THEN call ELSE prev
            /\ UNCHANGED <<repo, now, steps, written>>

\* the wall clock moves between calls
Tick ==
    /\ now < NowEnd
    /\ now' = now + 1
    /\ UNCHANGED <<repo, call, prev, log, steps, written>>

\* ------------------------------------------------- generate_blog_post
\* content_data.get('title', ...): the titles the content generator may
\* return, and os.path.join(self.output_dir, filename) for the filename
\* generate_filename_from_title makes of each
FilePaths == [alpha |-> "output/alpha.md", beta |-> "output/beta.md"]

Titles == DOMAIN FilePaths

SummaryPath == "output/posts_summary.md"

Step(op, arg) == [op |-> op, arg |-> arg]

\* FileChangeTargets with every commit analysed
FileChangeTargetsAll(commits) == [k \in DOMAIN commits |-> commits[k].hash]

\* latest_commit = commits[0]; get_file_changes(latest_commit.hash)
FileChangeTargets(commits) == <<commits[1].hash>>

\* step 2: the get_file_changes calls made, only when include_file_changes
FileChangeSteps(commits, include_file_changes) ==
    IF include_file_changes
    THEN LET targets == FileChangeTargets(commits)
         IN  [k \in DOMAIN targets |->
                 [op |-> "get_file_changes", arg |-> targets[k],
                  ret |-> FileChangesCall(targets[k]).ret]]
    ELSE <<>>

\* steps 3 to 5: generate_blog_content and format_blog_post return whatever
\* happens inside them; save_blog_post writes the file or raises
SaveBlogPost(filepath, disk_ok) ==
    IF disk_ok
    THEN [raised |-> FALSE, written |-> <<filepath>>]
    ELSE [raised |-> TRUE, written |-> <<>>]

\* generate_blog_post from line 95 on, `commits` being what step 1 returned;
\* title and disk_ok are what the language model and the file system answer
BlogPostWith(commits, days, include_file_changes, title, disk_ok) ==
    LET first == <<[op |-> "get_recent_commits", arg |-> days, ret |-> commits]>>
    IN  IF commits = <<>>
        THEN [ret |-> None, escaped |-> FALSE, log |-> <<"warning">>,
              steps |-> first, written |-> <<>>]
        ELSE LET filepath == FilePaths[title]
                 saved == SaveBlogPost(filepath, disk_ok)
                 all == first \o FileChangeSteps(commits, include_file_changes)
                          \o <<Step("generate_blog_content", title),
                               Step("format_blog_post", title),
                               Step("save_blog_post", filepath)>>
             IN  IF saved.raised
                 THEN [ret |-> None, escaped |-> FALSE, log |-> <<"error">>,
                       steps |-> all, written |-> <<>>]
                 ELSE [ret |-> filepath, escaped |-> FALSE, log |-> <<"info">>,
                       steps |-> all, written |-> saved.written]

\* the whole of generate_blog_post(days, include_file_changes):
\* commits = self.git_analyzer.get_recent_commits(days), called once
BlogPostCall(days, include_file_changes, title, disk_ok) ==
    CHOOSE r \in {BlogPostWith(commits, days, include_file_changes, title, disk_ok) :
                    commits \in {RecentCommitsCall(days, now).ret}} : TRUE

\* --------------------------------------------- generate_multiple_posts
\* if filepath: generated_posts.append(filepath), with the calls made and
\* the files written so far
AfterPost(acc, r) ==
    [generated_posts |-> IF r.ret # None
                         THEN Append(acc.generated_posts, r.ret)
                         ELSE acc.generated_posts,
     steps |-> acc.steps \o r.steps,
     written |-> acc.written \o r.written]

\* for days in days_list: filepath = self.generate_blog_post(days, ...)
RECURSIVE PostsLoop(_, _, _, _, _)
PostsLoop(days_list, include_file_changes, answers, i, acc) ==
    IF i > Len(days_list)
    THEN acc
    ELSE CHOOSE done \in
            {PostsLoop(days_list, include_file_changes, answers, i + 1, next) :
                next \in {AfterPost(acc, r) :
                    r \in {BlogPostCall(days_list[i], include_file_changes,
                                        answers[i][1], answers[i][2])}}} : TRUE

\* create_summary_file(posts): `for i, post in enumerate(posts, 1):
\* title = post.get(...)`; the posts passed are path strings, which have no
\* get, so the first iteration raises AttributeError; the handler of lines
\* 264-266 logs and raises again.  Without a post the file is written.
CreateSummaryFile(posts) ==
    IF posts # <<>>
    THEN [raised |-> TRUE, written |-> <<>>, log |-> <<"error">>]
    ELSE [raised |-> FALSE, written |-> <<SummaryPath>>, log |-> <<"info">>]

\* if generated_posts: create_summary_file(generated_posts)
\* return generated_posts
SummaryStep(done) ==
    IF done.generated_posts # <<>>
    THEN LET summary == CreateSummaryFile(done.generated_posts)
             called == done.steps
                          \o <<Step("create_summary_file", Len(done.generated_posts))>>
         IN  IF summary.raised
             THEN [ret |-> <<>>, escaped |-> TRUE, log |-> summary.log,
                   steps |-> called, written |-> done.written]
             ELSE [ret |-> done.generated_posts, escaped |-> FALSE,
                   log |-> summary.log, steps |-> called,
                   written |-> done.written \o summary.written]
    ELSE [ret |-> done.generated_posts, escaped |-> FALSE, log |-> <<>>,
          steps |-> done.steps, written |-> done.written]

\* the whole of generate_multiple_posts(days_list, include_file_changes)
MultiplePostsCall(days_list, include_file_changes, answers) ==
    CHOOSE r \in {SummaryStep(done) :
                    done \in {PostsLoop(days_list, include_file_changes, answers, 1,
                                 [generated_posts |-> <<>>, steps |-> <<>>,
                                  written |-> <<>>])}} : TRUE

\* generate_blog_post(days, include_file_changes)
GenerateBlogPost ==
    \E days \in Days, include_file_changes \in BOOLEAN,
       title \in Titles, disk_ok \in BOOLEAN :
        \E r \in {BlogPostCall(days, include_file_changes, title, disk_ok)} :
            /\ call' = CallRecord("generate_blog_post",
                                  [days |-> days,
                                   include_file_changes |-> include_file_changes], r)
            /\ log' = r.log
            /\ steps' = r.steps
            /\ written' = r.written
            /\ prev' = IF call.op = "get_recent_commits" THEN call ELSE prev
            /\ UNCHANGED <<repo, now>>

\* generate_multiple_posts(days_list, include_file_changes)
GenerateMultiplePosts ==
    \E days_list \in SeqUpTo(Days, MaxPosts), include_file_changes \in BOOLEAN :
        \E answers \in [DOMAIN days_list -> Titles \X BOOLEAN] :
            \E r \in {MultiplePostsCall(days_list, include_file_changes, answers)} :
                /\ call' = CallRecord("generate_multiple_posts",
                                      [days_list |-> days_list,
                                       include_file_changes |-> include_file_changes], r)
                /\ log' = r.log
                /\ steps' = r.steps
                /\ written' = r.written
                /\ prev' = IF call.op = "get_recent_commits" THEN call ELSE prev
                /\ UNCHANGED <<repo, now>>

\* A GitAnalyzer constructed on a repository with one of the given histories.
InitWith(histories) ==
    /\ repo \in [main_ok : BOOLEAN, history : histories]
    /\ now = NowStart
    /\ call = NoCall
    /\ prev = NoCall
    /\ log = <<>>
    /\ steps = <<>>
    /\ written = <<>>

Init == InitWith(WindowHistories)

InitInfo == InitWith(InfoHistories)

InitBatch == InitWith(BatchHistories)

Next == GetRecentCommits \/ GetFileChanges \/ Tick

\* the analyzer over histories of every order and committed date
Spec == Init /\ [][Next]_vars

\* the analyzer over one commit of every shape
SpecInfo == InitInfo /\ [][Next]_vars

\* the analyzer over batches of commits with and without statistics
SpecBatch == InitBatch /\ [][Next]_vars

InitBlog == InitWith(BlogHistories)

NextBlog == GenerateBlogPost \/ GenerateMultiplePosts \/ Tick

\* the blog generator over the analyzer
SpecBlog == InitBlog /\ [][NextBlog]_vars

\* ------------------------------------------------------------ properties
\* What the properties say of a call, stated from the repository state.
CommitDate(i) == repo.history[i].committed_date * TicksPerSecond

\* now - D of a get_recent_commits call
Cutoff(c) == c.at - c.arg * SecondsPerDay * TicksPerSecond

\* the commits the traversal reaches: all those before it are inside the window
Visited(cutoff) ==
    {i \in DOMAIN repo.history : \A j \in 1 .. (i - 1) : CommitDate(j) >= cutoff}

Included(c, i) == \E k \in DOMAIN c.ret : c.ret[k].hash = repo.history[i].hexsha

IsRecent(c) == c.op = "get_recent_commits"

IsChanges(c) == c.op = "get_file_changes"

\* the commit a returned record was derived from
CommitOf(record) == repo.history[record.hash]

NonIncreasing(ret) == \A k \in 1 .. (Len(ret) - 1) : ret[k].date >= ret[k + 1].date

\* C1: a call of get_recent_commits(D) returns only records dated at or after
\* now - D, leaves out every visited commit dated before now - D, and, when it
\* returns normally, includes every visited commit dated at or after now - D:
\* the commit dated exactly now - D is in, the one a second older is out.
C1_Window ==
    IsRecent(call) =>
        LET cutoff == Cutoff(call)
        IN  /\ \A k \in DOMAIN call.ret :
                   /\ call.ret[k].date >= cutoff
                   /\ call.ret[k].date = CommitDate(call.ret[k].hash)
            /\ \A i \in Visited(cutoff) :
                   CommitDate(i) < cutoff => ~Included(call, i)
            /\ log = <<"info">> =>
                   \A i \in Visited(cutoff) :
                       CommitDate(i) >= cutoff => Included(call, i)

C1_Witness ==
    /\ IsRecent(call)
    /\ log = <<"info">>
    /\ \E i, j \in Visited(Cutoff(call)) :
           /\ CommitDate(i) = Cutoff(call)
           /\ Included(call, i)
           /\ CommitDate(j) = Cutoff(call) - TicksPerSecond
           /\ ~Included(call, j)

\* C2 as claimed: whatever the history, the returned records are in
\* non-increasing timestamp order.
C2_Original == IsRecent(call) => NonIncreasing(call.ret)

\* C2 as amended: the returned records are in traversal order (the k-th record
\* is that of the k-th commit iterated), and they are in non-increasing
\* timestamp order whenever the traversal itself is.
C2_TraversalOrder ==
    IsRecent(call) =>
        /\ Len(call.ret) <= Len(repo.history)
        /\ \A k \in DOMAIN call.ret : call.ret[k].hash = repo.history[k].hexsha
        /\ (\A i \in 1 .. (Len(repo.history) - 1) : CommitDate(i) >= CommitDate(i + 1))
               => NonIncreasing(call.ret)

C2_Witness ==
    /\ IsRecent(call)
    /\ Len(call.ret) >= 2
    /\ \A i \in 1 .. (Len(repo.history) - 1) : CommitDate(i) >= CommitDate(i + 1)
    /\ call.ret[1].date > call.ret[2].date

\* what one diff entry reports for a statistic, 0 when it reports none
Reported(c, key) == IF c.has_stats /\ key \in DOMAIN c.stats THEN c.stats[key] ELSE 0

RECURSIVE SumReported(_, _)
SumReported(changes, key) ==
    IF changes = <<>>
    THEN 0
    ELSE Reported(Head(changes), key) + SumReported(Tail(changes), key)

\* C3: the record of a commit with a parent has one files_changed item per
\* entry of the diff against its first parent, additions the sum of the
\* entries' insertions and deletions the sum of their deletions.
C3_DiffTotals ==
    IsRecent(call) =>
        \A k \in DOMAIN call.ret :
            LET commit == CommitOf(call.ret[k])
            IN  commit.parents # <<>> =>
                    /\ Len(call.ret[k].files_changed) = Len(commit.parents[1])
                    /\ call.ret[k].additions = SumReported(commit.parents[1], "insertions")
                    /\ call.ret[k].deletions = SumReported(commit.parents[1], "deletions")

C3_Witness ==
    /\ IsRecent(call)
    /\ \E k \in DOMAIN call.ret :
           /\ CommitOf(call.ret[k]).parents # <<>>
           /\ Len(call.ret[k].files_changed) >= 2
           /\ call.ret[k].deletions > 0
           /\ call.ret[k].additions > call.ret[k].deletions

\* C4: the record of a root commit lists exactly the files of its snapshot,
\* in snapshot order, and has deletions 0.
C4_RootFiles ==
    IsRecent(call) =>
        \A k \in DOMAIN call.ret :
            LET commit == CommitOf(call.ret[k])
            IN  commit.parents = <<>> =>
                    /\ call.ret[k].files_changed =
                           [i \in DOMAIN commit.files |-> commit.files[i][1]]
                    /\ call.ret[k].deletions = 0

C4_Witness ==
    /\ IsRecent(call)
    /\ \E k \in DOMAIN call.ret :
           /\ CommitOf(call.ret[k]).parents = <<>>
           /\ call.ret[k].files_changed = <<"a.txt", "b.txt">>
           /\ call.ret[k].deletions = 0

\* the total the library reports for one file of the initial snapshot
FileTotal(v) == IF v.kind = "int" THEN v.n ELSE v.lines

RECURSIVE SumTotals(_)
SumTotals(files) ==
    IF files = <<>> THEN 0 ELSE FileTotal(Head(files)[2]) + SumTotals(Tail(files))

\* C5: the record of a root commit has additions equal to the sum of the
\* per-file totals reported for the initial snapshot.
C5_RootAdditions ==
    IsRecent(call) =>
        \A k \in DOMAIN call.ret :
            LET commit == CommitOf(call.ret[k])
            IN  commit.parents = <<>> =>
                    call.ret[k].additions = SumTotals(commit.files)

HasPath(c) == c.pre # None \/ c.post # None

\* Added without a pre-change path, Deleted without a post-change path,
\* Modified with both
ClaimedType(c) ==
    IF c.pre = None THEN "A" ELSE IF c.post = None THEN "D" ELSE "M"

RECURSIVE ClaimedTypes(_)
ClaimedTypes(changes) ==
    IF changes = <<>>
    THEN <<>>
    ELSE (IF HasPath(Head(changes)) THEN <<ClaimedType(Head(changes))>> ELSE <<>>)
             \o ClaimedTypes(Tail(changes))

\* C6: for a commit with a parent, get_file_changes returns one record per
\* entry of the first-parent diff that has a path, in diff order, typed Added,
\* Deleted or Modified by the sides the entry has a path on.
C6_FileChangeRecords ==
    (IsChanges(call) /\ Resolves(call.arg)) =>
        LET commit == repo.history[call.arg]
        IN  commit.parents # <<>> =>
                [k \in DOMAIN call.ret |-> call.ret[k].change_type]
                    = ClaimedTypes(commit.parents[1])

\* C7: get_file_changes with an identifier of no commit ends with an error
\* reaching the caller, never with a returned sequence.
C7_UnknownIdFails ==
    (IsChanges(call) /\ ~Resolves(call.arg)) => call.escaped

\* C8: get_file_changes with the id of a root commit returns the empty sequence.
C8_RootChangesEmpty ==
    (IsChanges(call) /\ Resolves(call.arg)) =>
        (repo.history[call.arg].parents = <<>> =>
            /\ call.ret = <<>>
            /\ ~call.escaped)

\* ... while the get_recent_commits call before it listed that commit's files
C8_Witness ==
    /\ IsChanges(call)
    /\ Resolves(call.arg)
    /\ repo.history[call.arg].parents = <<>>
    /\ call.ret = <<>>
    /\ IsRecent(prev)
    /\ \E k \in DOMAIN prev.ret :
           /\ prev.ret[k].hash = call.arg
           /\ prev.ret[k].files_changed # <<>>

\* C9 as claimed: two successive get_recent_commits calls with the same days
\* on the (unchanged) repository return the same records.
C9_Original ==
    (IsRecent(call) /\ IsRecent(prev) /\ prev.arg = call.arg) => call.ret = prev.ret

\* no commit of the history is dated from the first cutoff up to the second
NoneBetween(first, second) ==
    \A i \in DOMAIN repo.history : ~(first <= CommitDate(i) /\ CommitDate(i) < second)

\* C9 as amended: they return the same records when no commit is dated between
\* the cutoffs of the two calls (as when the clock reads the same at both).
C9_Idempotent ==
    (/\ IsRecent(call)
     /\ IsRecent(prev)
     /\ prev.arg = call.arg
     /\ NoneBetween(Cutoff(prev), Cutoff(call))) => call.ret = prev.ret

C9_Witness ==
    /\ IsRecent(call)
    /\ IsRecent(prev)
    /\ prev.arg = call.arg
    /\ prev.at < call.at
    /\ NoneBetween(Cutoff(prev), Cutoff(call))
    /\ call.ret # <<>>
    /\ call.ret = prev.ret

\* C10: when the primary branch cannot be iterated, get_recent_commits returns
\* the empty sequence and logs the error, and no exception leaves the call.
C10_IterationFailure ==
    (IsRecent(call) /\ ~repo.main_ok) =>
        /\ call.ret = <<>>
        /\ ~call.escaped
        /\ log = <<"error">>

C10_Witness ==
    /\ IsRecent(call)
    /\ ~repo.main_ok
    /\ repo.history # <<>>
    /\ call.ret = <<>>
    /\ log = <<"error">>

\* the visited commits inside the window of a get_recent_commits call
InWindow(c) == {i \in Visited(Cutoff(c)) : CommitDate(i) >= Cutoff(c)}

\* a commit some statistic of which is missing: an entry without stats, or a
\* root snapshot whose values cannot be summed
StatsMissing(commit) ==
    IF commit.parents # <<>>
    THEN \E i \in DOMAIN commit.parents[1] : ~commit.parents[1][i].has_stats
    ELSE \E i \in DOMAIN commit.files : commit.files[i][2].kind # "int"

\* C11: in get_recent_commits, missing statistics never abort the batch: when
\* the branch iterates and every in-window commit can be read, the call returns
\* normally with one record per in-window commit; an entry without statistics
\* adds 0 to the commit's totals and a root commit whose statistics cannot be
\* summed has additions 0 and deletions 0.
C11_MissingStats ==
    (/\ IsRecent(call)
     /\ repo.main_ok
     /\ \A i \in InWindow(call) : repo.history[i].readable) =>
        /\ log = <<"info">>
        /\ Len(call.ret) = Cardinality(InWindow(call))
        /\ \A i \in InWindow(call) :
               \E k \in DOMAIN call.ret :
                   /\ call.ret[k].hash = repo.history[i].hexsha
                   /\ IF repo.history[i].parents # <<>>
                      THEN /\ call.ret[k].additions =
                                  SumReported(repo.history[i].parents[1], "insertions")
                           /\ call.ret[k].deletions =
                                  SumReported(repo.history[i].parents[1], "deletions")
                      ELSE StatsMissing(repo.history[i]) =>
                               /\ call.ret[k].additions = 0
                               /\ call.ret[k].deletions = 0

\* a batch of two: statistics missing in one commit, the other returned with
\* its own totals
C11_Witness ==
    /\ IsRecent(call)
    /\ log = <<"info">>
    /\ Len(call.ret) = 2
    /\ \E i, j \in InWindow(call) :
           /\ StatsMissing(repo.history[i])
           /\ ~StatsMissing(repo.history[j])
           /\ \E k \in DOMAIN call.ret :
                  /\ call.ret[k].hash = repo.history[j].hexsha
                  /\ call.ret[k].additions > 0

\* the position in the traversal of the first commit dated before the cutoff,
\* one past the end when there is none
StopIndex(cutoff) ==
    IF \E i \in DOMAIN repo.history : CommitDate(i) < cutoff
    THEN CHOOSE i \in DOMAIN repo.history :
             /\ CommitDate(i) < cutoff
             /\ \A j \in 1 .. (i - 1) : CommitDate(j) >= cutoff
    ELSE Len(repo.history) + 1

\* C13: get_recent_commits stops at the first commit of the traversal dated
\* before the cutoff: no commit at or after it is returned, whatever its date,
\* and a call that returns normally returns exactly the records of the commits
\* before it, in order.
C13_StopsAtFirstOld ==
    IsRecent(call) =>
        LET stop == StopIndex(Cutoff(call))
        IN  /\ \A i \in DOMAIN repo.history : i >= stop => ~Included(call, i)
            /\ log = <<"info">> =>
                   /\ Len(call.ret) = stop - 1
                   /\ \A k \in 1 .. (stop - 1) :
                          call.ret[k].hash = repo.history[k].hexsha

\* a commit inside the window left out because it comes after the stop
C13_Witness ==
    /\ IsRecent(call)
    /\ log = <<"info">>
    /\ call.ret # <<>>
    /\ \E i \in DOMAIN repo.history :
           /\ i > StopIndex(Cutoff(call))
           /\ CommitDate(i) >= Cutoff(call)
           /\ ~Included(call, i)

\* the commit with its second parent differing by `other` instead
WithSecondParent(commit, other) == [commit EXCEPT !.parents[2] = other]

IsMerge(commit) == Len(commit.parents) >= 2

\* C14: for a commit with two or more parents, the record get_recent_commits
\* returns and the records get_file_changes returns do not depend on what a
\* non-first parent contains: they are those of the same commit with any
\* other second parent, and are derived from the first-parent diff.
C14_FirstParentOnly ==
    /\ IsRecent(call) =>
           \A k \in DOMAIN call.ret :
               LET commit == CommitOf(call.ret[k])
               IN  IsMerge(commit) =>
                       /\ \A o \in OtherDiffs :
                              call.ret[k] = ExtractCommitInfo(WithSecondParent(commit, o))
                       /\ Len(call.ret[k].files_changed) = Len(commit.parents[1])
                       /\ call.ret[k].additions =
                              SumReported(commit.parents[1], "insertions")
                       /\ call.ret[k].deletions =
                              SumReported(commit.parents[1], "deletions")
    /\ (IsChanges(call) /\ Resolves(call.arg)) =>
           LET commit == repo.history[call.arg]
           IN  IsMerge(commit) =>
                   /\ \A o \in OtherDiffs :
                          call.ret =
                              ChangeLoop(CommitDiff(WithSecondParent(commit, o)), 1,
                                         [changes |-> <<>>, log |-> <<>>]).changes
                   /\ Len(call.ret) <= Len(commit.parents[1])

\* a merge whose second parent differs from it, analysed by both entry points
C14_Witness ==
    /\ IsChanges(call)
    /\ Resolves(call.arg)
    /\ IsMerge(repo.history[call.arg])
    /\ repo.history[call.arg].parents[2] # <<>>
    /\ call.ret # <<>>
    /\ IsRecent(prev)
    /\ \E k \in DOMAIN prev.ret :
           /\ prev.ret[k].hash = call.arg
           /\ prev.ret[k].files_changed # <<>>

\* an exception is raised in the try block of a get_recent_commits call: the
\* branch does not iterate, or an in-window commit the loop reaches is unreadable
RaisesDuring(c) ==
    \/ ~repo.main_ok
    \/ \E i \in InWindow(c) : ~repo.history[i].readable

\* C15: get_recent_commits is all-or-nothing: when an exception is raised while
\* iterating or while deriving the record of an in-window commit, the call
\* returns the empty list (and logs an error), never the records derived
\* before the failure.
C15_AllOrNothing ==
    (IsRecent(call) /\ RaisesDuring(call)) =>
        /\ call.ret = <<>>
        /\ ~call.escaped
        /\ log = <<"error">>

\* a record had been derived before the commit that raised
C15_Witness ==
    /\ IsRecent(call)
    /\ repo.main_ok
    /\ \E i, j \in InWindow(call) :
           /\ i < j
           /\ repo.history[i].readable
           /\ ~repo.history[j].readable
    /\ call.ret = <<>>
    /\ log = <<"error">>

IsBlogPost(c) == c.op = "generate_blog_post"

IsMultiplePosts(c) == c.op = "generate_multiple_posts"

OpsOf(called) == [k \in DOMAIN called |-> called[k].op]

\* C16: in generate_blog_post the first step is the commit analysis; when it
\* returns no commit the call returns None, nothing else is invoked and no file
\* is written; otherwise the steps are, in this order, the file-change analysis
\* of the first returned commit alone (only when include_file_changes),
\* content generation, formatting and saving.
C16_StepOrder ==
    IsBlogPost(call) =>
        /\ steps # <<>>
        /\ steps[1].op = "get_recent_commits"
        /\ steps[1].arg = call.arg.days
        /\ IF steps[1].ret = <<>>
           THEN /\ Len(steps) = 1
                /\ call.ret = None
                /\ written = <<>>
           ELSE IF call.arg.include_file_changes
                THEN /\ OpsOf(steps) =
                            <<"get_recent_commits", "get_file_changes",
                              "generate_blog_content", "format_blog_post",
                              "save_blog_post">>
                     /\ steps[2].arg = steps[1].ret[1].hash
                ELSE OpsOf(steps) =
                         <<"get_recent_commits", "generate_blog_content",
                           "format_blog_post", "save_blog_post">>

\* a full run over two returned commits with the file changes included
C16_Witness ==
    /\ IsBlogPost(call)
    /\ call.arg.include_file_changes
    /\ Len(steps) = 5
    /\ Len(steps[1].ret) >= 2
    /\ steps[2].arg = steps[1].ret[1].hash
    /\ call.ret # None
    /\ written = <<call.ret>>

\* the posts written by a call, without the summary
PostsWritten == SelectSeq(written, LAMBDA f : f # SummaryPath)

\* C12: generate_multiple_posts returns the paths of the generated posts, one
\* per entry of days_list for which a post was generated, in order, and has
\* written the summary file when that list is not empty.
C12_ReturnsGeneratedPosts ==
    IsMultiplePosts(call) =>
        /\ ~call.escaped
        /\ call.ret = PostsWritten
        /\ call.ret # <<>> => \E k \in DOMAIN written : written[k] = SummaryPath

====
